---------------------------- MODULE Spec2Model ----------------------------
(***************************************************************************)
(* State-machine model of the quantumsynth Django application:             *)
(*   - the QuantumPatch store behind QuantumPatchViewSet,                  *)
(*   - the /process/ endpoint and the two Celery tasks,                    *)
(*   - the /task/<id>/ status endpoint,                                    *)
(*   - the synchronous /quick-process/ endpoint.                           *)
(*                                                                         *)
(* Conventions.                                                            *)
(*   An optional value is a sequence: <<>> when absent, <<v>> when given.  *)
(*   Sample values are fixed-point tenths: 10 stands for 1.0.              *)
(*   A numpy array is abstracted by its shape and by the least and the     *)
(*   greatest sample it holds: [shape, lo, hi].  len(a) is shape[1], every *)
(*   sample of a lies in [-1.0, 1.0] iff -10 <= lo and hi <= 10, and       *)
(*   np.clip, being monotone, maps the least/greatest sample to the        *)
(*   clipped least/greatest sample.                                        *)
(***************************************************************************)
EXTENDS Integers, Sequences, FiniteSets, TLC

VARIABLES
    patches,            \* QuantumPatch table: id -> row
    next_patch_id,      \* next auto-increment primary key of QuantumPatch
    processed_samples,  \* ProcessedSample table: set of rows
    jobs,               \* Celery result backend: task id -> task record
    accepted,           \* per task id, the HTTP request that enqueued it
    inflight,           \* the task_status handler in progress, if any
    observed,           \* per task id, the last task_status response body
    transform_log,      \* per task id, the transform invocation the task made
    http                \* the last exchange on a POST/PUT/PATCH/DELETE endpoint

vars == <<patches, next_patch_id, processed_samples, jobs, accepted,
          inflight, observed, transform_log, http>>

-----------------------------------------------------------------------------
(* Program constants *)

MIN_SHOTS == 1000
MAX_SHOTS == 8000
DEFAULT_SHOTS == 4000
MIN_BUFFER_SIZE == 128
MAX_BUFFER_SIZE == 1024
DEFAULT_BUFFER_SIZE == 256
COMPLEX_BUFFER_CAP == 128
QUICK_MAX_SAMPLES == 2048
CLIP_MIN == -10
CLIP_MAX == 10

SCHEME_CHOICES == {"qpam", "sqpam", "msqpam", "qsm", "mqsm"}
DEFAULT_SCHEME == "qpam"
COMPLEX_SCHEMES == {"sqpam", "qsm", "mqsm"}
MULTI_CHANNEL_SCHEMES == {"mqsm", "msqpam"}

-----------------------------------------------------------------------------
(* Bounds of the model *)

MaxPatchId == 2         \* primary keys handed out by the patch table
MaxClampJobs == 1       \* tasks enqueued in the request-validation model
MaxArgJobs == 2         \* tasks enqueued in the transform-arguments model
MaxLifeJobs == 2        \* tasks enqueued in the job-lifecycle model

-----------------------------------------------------------------------------
(* Optional values *)

Absent == <<>>
Some(v) == <<v>>
Given(o) == o # <<>>
Get(o, d) == IF o = <<>> THEN d ELSE o[1]

Min(a, b) == IF a <= b THEN a ELSE b
Max(a, b) == IF a >= b THEN a ELSE b

NoExchange == [endpoint |-> "none"]

-----------------------------------------------------------------------------
(* QuantumPatch store *)

\* the validators of QuantumPatch.shots (a variant without MaxValueValidator)
ShotsErrorsNoMax(shots) ==
    IF Given(shots) /\ shots[1] < MIN_SHOTS THEN {<<"shots", "min_value">>} ELSE {}

\* MinValueValidator(1000) and MaxValueValidator(8000) of QuantumPatch.shots
ShotsErrors(shots) ==
    (IF Given(shots) /\ shots[1] < MIN_SHOTS THEN {<<"shots", "min_value">>} ELSE {})
    \cup
    (IF Given(shots) /\ shots[1] > MAX_SHOTS THEN {<<"shots", "max_value">>} ELSE {})

\* UniqueValidator on QuantumPatch.name; on update the row itself is excluded
NameTaken(name, self) ==
    \E i \in DOMAIN patches : i \notin self /\ patches[i].name = name

\* field errors the serializer reports for a payload; self is {} on create
\* and {pk} on update; partial is TRUE for PATCH
QuantumPatchSerializerErrors(payload, self, partial) ==
    (IF ~Given(payload.name)
       THEN (IF partial THEN {} ELSE {<<"name", "required">>})
       ELSE (IF NameTaken(payload.name[1], self) THEN {<<"name", "unique">>} ELSE {}))
    \cup ShotsErrors(payload.shots)

\* row written by serializer.save() on create: model defaults fill the gaps
NewPatchRow(payload) ==
    [name |-> payload.name[1],
     scheme |-> DEFAULT_SCHEME,
     shots |-> Get(payload.shots, DEFAULT_SHOTS),
     buffer_size |-> DEFAULT_BUFFER_SIZE]

\* row written by serializer.save() on update: absent fields keep their value
UpdatedPatchRow(row, payload) ==
    [row EXCEPT !.name = Get(payload.name, row.name),
                !.shots = Get(payload.shots, row.shots)]

\* on_delete=CASCADE of ProcessedSample.patch
CascadeDelete(pk) == {s \in processed_samples : s.patch # pk}

UNCHANGED_jobs == UNCHANGED <<jobs, accepted, inflight, observed, transform_log>>

\* POST /patches/
PatchCreate(payload) ==
    LET errs == QuantumPatchSerializerErrors(payload, {}, FALSE) IN
    /\ IF errs # {}
         THEN /\ http' = [endpoint |-> "patch-create", payload |-> payload,
                          status |-> 400, errors |-> errs]
              /\ UNCHANGED <<patches, next_patch_id>>
         ELSE /\ patches' = [i \in DOMAIN patches \cup {next_patch_id} |->
                               IF i = next_patch_id THEN NewPatchRow(payload)
                                                    ELSE patches[i]]
              /\ next_patch_id' = next_patch_id + 1
              /\ http' = [endpoint |-> "patch-create", payload |-> payload,
                          status |-> 201, id |-> next_patch_id]
    /\ UNCHANGED processed_samples
    /\ UNCHANGED_jobs

\* PUT (partial = FALSE) or PATCH (partial = TRUE) /patches/<pk>/
PatchUpdate(pk, payload, partial) ==
    /\ IF pk \notin DOMAIN patches
         THEN /\ http' = [endpoint |-> "patch-update", pk |-> pk, payload |-> payload,
                          status |-> 404]
              /\ UNCHANGED patches
         ELSE LET errs == QuantumPatchSerializerErrors(payload, {pk}, partial) IN
              IF errs # {}
                THEN /\ http' = [endpoint |-> "patch-update", pk |-> pk,
                                 payload |-> payload, status |-> 400, errors |-> errs]
                     /\ UNCHANGED patches
                ELSE /\ patches' = [patches EXCEPT ![pk] = UpdatedPatchRow(@, payload)]
                     /\ http' = [endpoint |-> "patch-update", pk |-> pk,
                                 payload |-> payload, status |-> 200]
    /\ UNCHANGED <<next_patch_id, processed_samples>>
    /\ UNCHANGED_jobs

\* DELETE /patches/<pk>/
PatchDestroy(pk) ==
    /\ IF pk \notin DOMAIN patches
         THEN /\ http' = [endpoint |-> "patch-destroy", pk |-> pk, status |-> 404]
              /\ UNCHANGED <<patches, processed_samples>>
         ELSE /\ patches' = [i \in DOMAIN patches \ {pk} |-> patches[i]]
              /\ processed_samples' = CascadeDelete(pk)
              /\ http' = [endpoint |-> "patch-destroy", pk |-> pk, status |-> 204]
    /\ UNCHANGED next_patch_id
    /\ UNCHANGED_jobs

-----------------------------------------------------------------------------
(* Arrays and the audio codecs *)

Array(shape, lo, hi) == [shape |-> shape, lo |-> lo, hi |-> hi]

\* len(a): the size of the first axis
len(a) == a.shape[1]

\* len(a.shape)
ndim(a) == Len(a.shape)

\* librosa.load(..., sr=None, mono=False): (samples,) for a mono file and
\* (channels, samples) otherwise, float32 in [-1, 1]
librosa_load(file) ==
    IF file.channels = 1
      THEN Array(<<file.frames>>, file.lo, file.hi)
      ELSE Array(<<file.channels, file.frames>>, file.lo, file.hi)

\* soundfile.read(path): (frames,) for a mono file and (frames, channels)
\* otherwise; the default dtype is float64, so the integer rescaling of
\* process_audio_file is never taken
sf_read(file) ==
    IF file.channels = 1
      THEN Array(<<file.frames>>, file.lo, file.hi)
      ELSE Array(<<file.frames, file.channels>>, file.lo, file.hi)

\* np.mean(a, axis=0) of a 2-d array: the first axis is averaged away; a mean
\* of samples lies between the least and the greatest of them
np_mean_axis0(a) == Array(<<a.shape[2]>>, a.lo, a.hi)

\* np.mean(a, axis=1) of a 2-d array
np_mean_axis1(a) == Array(<<a.shape[1]>>, a.lo, a.hi)

\* a.T of a 2-d array
transpose(a) == Array(<<a.shape[2], a.shape[1]>>, a.lo, a.hi)

\* np.clip(a, lo, hi), element-wise
np_clip(a, lo, hi) ==
    Array(a.shape, Max(lo, Min(hi, a.lo)), Max(lo, Min(hi, a.hi)))

\* the array quantumaudio hands back for an input array: same layout, samples
\* of its own choosing
TransformResult(data, out) == Array(data.shape, out.lo, out.hi)

-----------------------------------------------------------------------------
(* AudioProcessRequestSerializer *)

AudioProcessRequestSerializerErrors(req) ==
    (IF ~Given(req.audio) THEN {<<"audio", "required">>} ELSE {})
    \cup
    (IF Given(req.scheme) /\ req.scheme[1] \notin SCHEME_CHOICES
       THEN {<<"scheme", "invalid_choice">>} ELSE {})
    \cup
    (IF Given(req.shots) /\ req.shots[1] < MIN_SHOTS
       THEN {<<"shots", "min_value">>} ELSE {})
    \cup
    (IF Given(req.shots) /\ req.shots[1] > MAX_SHOTS
       THEN {<<"shots", "max_value">>} ELSE {})
    \cup
    (IF Given(req.buffer_size) /\ req.buffer_size[1] < MIN_BUFFER_SIZE
       THEN {<<"buffer_size", "min_value">>} ELSE {})
    \cup
    (IF Given(req.buffer_size) /\ req.buffer_size[1] > MAX_BUFFER_SIZE
       THEN {<<"buffer_size", "max_value">>} ELSE {})

\* serializer.validated_data of a valid request: defaults fill absent fields
validated_data(req) ==
    [audio |-> req.audio[1],
     scheme |-> Get(req.scheme, DEFAULT_SCHEME),
     shots |-> Get(req.shots, DEFAULT_SHOTS),
     buffer_size |-> Get(req.buffer_size, DEFAULT_BUFFER_SIZE)]

-----------------------------------------------------------------------------
(* POST /process/ *)

\* the buffer size process_audio passes on (a variant with max for min)
EffectiveBufferSizeMax(scheme, buffer_size) ==
    IF scheme \in COMPLEX_SCHEMES THEN Max(buffer_size, COMPLEX_BUFFER_CAP)
                                  ELSE buffer_size

\* the buffer size process_audio passes on
EffectiveBufferSize(scheme, buffer_size) ==
    IF scheme \in COMPLEX_SCHEMES THEN Min(buffer_size, COMPLEX_BUFFER_CAP)
                                  ELSE buffer_size

\* the array process_audio hands to the task
ProcessAudioData(file, scheme) ==
    LET data == librosa_load(file) IN
    IF ndim(data) = 2 /\ scheme \notin MULTI_CHANNEL_SCHEMES
      THEN np_mean_axis0(data) ELSE data

NewTask(name, args) ==
    [task |-> name, args |-> args, state |-> "PENDING", result |-> Absent]

process_audio(req) ==
    LET errs == AudioProcessRequestSerializerErrors(req) IN
    /\ IF errs # {}
         THEN /\ http' = [endpoint |-> "process", request |-> req,
                          status |-> 400, errors |-> errs]
              /\ UNCHANGED <<jobs, accepted, transform_log>>
         ELSE LET v == validated_data(req)
                  buffer_size == EffectiveBufferSize(v.scheme, v.buffer_size)
              IN
              IF ~v.audio.decodable
                THEN /\ http' = [endpoint |-> "process", request |-> req,
                                 status |-> 500, error |-> "cannot decode audio"]
                     /\ UNCHANGED <<jobs, accepted, transform_log>>
                ELSE /\ jobs' = Append(jobs, NewTask("process_quantum_audio",
                                  [audio_data |-> ProcessAudioData(v.audio, v.scheme),
                                   scheme |-> v.scheme,
                                   shots |-> v.shots,
                                   buffer_size |-> buffer_size,
                                   sample_rate |-> v.audio.sample_rate]))
                     /\ accepted' = Append(accepted, Some(req))
                     /\ transform_log' = Append(transform_log, Absent)
                     /\ http' = [endpoint |-> "process", request |-> req,
                                 status |-> 200, task_id |-> Len(jobs) + 1,
                                 task_status |-> "processing"]
    /\ UNCHANGED <<patches, next_patch_id, processed_samples, inflight, observed>>

\* process_audio_file.delay(...): the task is registered with Celery but no
\* view calls it, so its arguments reach it unvalidated
enqueue_process_audio_file(file, scheme, shots, buffer_size) ==
    /\ jobs' = Append(jobs, NewTask("process_audio_file",
                 [audio_file_path |-> file, scheme |-> scheme,
                  shots |-> shots, buffer_size |-> buffer_size]))
    /\ accepted' = Append(accepted, Absent)
    /\ transform_log' = Append(transform_log, Absent)
    /\ UNCHANGED <<patches, next_patch_id, processed_samples, inflight,
                   observed, http>>

-----------------------------------------------------------------------------
(* The Celery tasks *)

\* A task run takes env, what the quantumaudio library does during it:
\* load_scheme returns a scheme ("ok"), returns None ("none") or raises
\* ("raises"); the transform raises or returns samples between out.lo and
\* out.hi.

\* the dictionaries the tasks return
SuccessPayload(audio, metadata) ==
    [status |-> "success", audio |-> audio, metadata |-> metadata]

ErrorPayload(message) == [status |-> "error", error |-> message]

Call(fn, data, scheme, shots, buffer_size) ==
    [fn |-> fn, data |-> data, scheme |-> scheme, shots |-> shots,
     buffer_size |-> buffer_size]

\* states in which the executor still has the task to run (a variant that
\* delivers a finished task again)
RunnableAgain(state) == state \in {"PENDING", "STARTED", "SUCCESS"}

\* states in which the executor still has the task to run (a variant that
\* drops a task once it is marked STARTED)
RunnablePendingOnly(state) == state = "PENDING"

\* states in which the executor still has the task to run: the task is
\* declared without retries, so it runs once and is then finished
Runnable(state) == state \in {"PENDING", "STARTED"}

\* quantumaudio.stream(data, scheme=qa_scheme, shots=shots) of
\* process_quantum_audio (a variant that forwards buffer_size)
UploadCallWithBuffer(args) ==
    Call("stream", args.audio_data, args.scheme, args.shots, Some(args.buffer_size))

\* quantumaudio.stream(data, scheme=qa_scheme, shots=shots) of
\* process_quantum_audio
UploadCall(args) ==
    Call("stream", args.audio_data, args.scheme, args.shots, Absent)

\* the transform invocation process_quantum_audio makes, if it gets that far
ProcessQuantumAudioLog(args, env) ==
    IF env.load = "ok" THEN Some([call |-> UploadCall(args), outcome |-> env.out])
                       ELSE Absent

\* the dictionary process_quantum_audio returns
ProcessQuantumAudioPayload(args, env) ==
    IF env.load = "raises"
      THEN ErrorPayload("Scheme is not available or not implemented: load failed")
    ELSE IF env.load = "none"
      THEN ErrorPayload("Scheme is not available or not implemented: returned None")
    ELSE IF env.out.raises
      THEN ErrorPayload("transform failed")
    ELSE LET processed == np_clip(TransformResult(args.audio_data, env.out),
                                  CLIP_MIN, CLIP_MAX)
         IN SuccessPayload(processed,
              [scheme |-> args.scheme,
               shots |-> args.shots,
               buffer_size |-> args.buffer_size,
               sample_rate |-> args.sample_rate,
               samples |-> len(processed),
               duration |-> <<len(processed), args.sample_rate>>])

\* one run of process_quantum_audio by a worker
process_quantum_audio(j, env) ==
    /\ j \in DOMAIN jobs
    /\ jobs[j].task = "process_quantum_audio"
    /\ Runnable(jobs[j].state)
    /\ jobs' = [jobs EXCEPT ![j].state = "SUCCESS",
                            ![j].result = Some(ProcessQuantumAudioPayload(jobs[j].args, env))]
    /\ transform_log' = [transform_log EXCEPT ![j] = ProcessQuantumAudioLog(jobs[j].args, env)]
    /\ UNCHANGED <<patches, next_patch_id, processed_samples, accepted,
                   inflight, observed, http>>

\* the array process_audio_file builds from the file it reads
ProcessAudioFileData(file, scheme) ==
    LET data == sf_read(file) IN
    IF ndim(data) > 1
      THEN (IF scheme \in MULTI_CHANNEL_SCHEMES THEN transpose(data)
                                                ELSE np_mean_axis1(data))
      ELSE data

\* the transform invocation process_audio_file makes, if it gets that far
ProcessAudioFileLog(args, env) ==
    LET data == ProcessAudioFileData(args.audio_file_path, args.scheme)
        qa_scheme == IF env.load = "ok" THEN args.scheme ELSE "None"
    IN
    IF ~args.audio_file_path.decodable \/ env.load = "raises" THEN Absent
    ELSE IF len(data) > args.buffer_size
      THEN Some([call |-> Call("stream", data, qa_scheme, args.shots,
                               Some(args.buffer_size)),
                 outcome |-> env.out])
    ELSE IF env.load = "none" THEN Absent
    ELSE Some([call |-> Call("encode_decode", data, qa_scheme, args.shots, Absent),
               outcome |-> env.out])

\* the dictionary process_audio_file returns
ProcessAudioFilePayload(args, env) ==
    LET file == args.audio_file_path
        data == ProcessAudioFileData(file, args.scheme)
        log == ProcessAudioFileLog(args, env)
    IN
    IF ~file.decodable THEN ErrorPayload("cannot read file")
    ELSE IF env.load = "raises" THEN ErrorPayload("load failed")
    ELSE IF ~Given(log) THEN ErrorPayload("NoneType has no attribute encode")
    ELSE IF env.out.raises THEN ErrorPayload("transform failed")
    ELSE LET processed == TransformResult(data, env.out)
         IN SuccessPayload(processed,
              [scheme |-> args.scheme,
               shots |-> args.shots,
               sample_rate |-> file.sample_rate,
               samples |-> len(processed),
               duration |-> <<len(processed), file.sample_rate>>])

\* one run of process_audio_file by a worker
process_audio_file(j, env) ==
    /\ j \in DOMAIN jobs
    /\ jobs[j].task = "process_audio_file"
    /\ Runnable(jobs[j].state)
    /\ jobs' = [jobs EXCEPT ![j].state = "SUCCESS",
                            ![j].result = Some(ProcessAudioFilePayload(jobs[j].args, env))]
    /\ transform_log' = [transform_log EXCEPT ![j] = ProcessAudioFileLog(jobs[j].args, env)]
    /\ UNCHANGED <<patches, next_patch_id, processed_samples, accepted,
                   inflight, observed, http>>

\* a worker picks the task up and the backend records STARTED
worker_started(j) ==
    /\ j \in DOMAIN jobs
    /\ jobs[j].state = "PENDING"
    /\ jobs' = [jobs EXCEPT ![j].state = "STARTED"]
    /\ UNCHANGED <<patches, next_patch_id, processed_samples, accepted,
                   inflight, observed, transform_log, http>>

\* the worker process dies under the task: the executor itself records the
\* failure, with the exception as the task's result
worker_lost(j) ==
    /\ j \in DOMAIN jobs
    /\ Runnable(jobs[j].state)
    /\ jobs' = [jobs EXCEPT ![j].state = "FAILURE",
                            ![j].result = Some([exc |-> "WorkerLostError"])]
    /\ UNCHANGED <<patches, next_patch_id, processed_samples, accepted,
                   inflight, observed, transform_log, http>>

-----------------------------------------------------------------------------
(* GET /task/<task_id>/ *)

READY_STATES == {"SUCCESS", "FAILURE", "REVOKED"}

\* AsyncResult(task_id).status: an id the backend does not know is PENDING
StateOf(task_id) ==
    IF task_id \in DOMAIN jobs THEN jobs[task_id].state ELSE "PENDING"

ResultOf(task_id) ==
    IF task_id \in DOMAIN jobs THEN jobs[task_id].result ELSE Absent

Response(task_id, status, result, error) ==
    [task_id |-> task_id, status |-> status, result |-> result, error |-> error]

\* response_data (a variant that attaches every payload of a succeeded task)
TaskStatusResponseNoPayloadCheck(task_id, status, state, result) ==
    IF state \in READY_STATES
      THEN IF state = "SUCCESS"
             THEN Response(task_id, status, result, Absent)
             ELSE Response(task_id, "FAILURE", Absent, Some(result[1].exc))
      ELSE Response(task_id, status, Absent, Absent)

\* response_data as task_status builds it: status is what line 117 read, state
\* and result are what ready(), successful() and .result see
TaskStatusResponse(task_id, status, state, result) ==
    IF state \in READY_STATES
      THEN IF state = "SUCCESS"
             THEN IF result[1].status = "success"
                    THEN Response(task_id, status, result, Absent)
                    ELSE Response(task_id, "FAILURE", Absent,
                           Some(IF "error" \in DOMAIN result[1]
                                  THEN result[1].error ELSE "Unknown error"))
             ELSE Response(task_id, "FAILURE", Absent, Some(result[1].exc))
      ELSE Response(task_id, status, Absent, Absent)

\* task_status up to line 118: task_result.status reads the backend
task_status_begin(task_id) ==
    /\ inflight = Absent
    /\ inflight' = Some([task_id |-> task_id, status |-> StateOf(task_id)])
    /\ UNCHANGED <<patches, next_patch_id, processed_samples, jobs, accepted,
                   observed, transform_log, http>>

\* task_status from line 120: task_result.ready() reads the backend again
\* (AsyncResult keeps what it read only when that was a ready state), so a
\* worker in another process may have finished the task since line 117 read
\* its status; successful() and .result then use what ready() read.  The
\* response is kept per task id in observed.
task_status_end ==
    /\ Given(inflight)
    /\ LET h == inflight[1].task_id
           resp == TaskStatusResponse(h, inflight[1].status, StateOf(h), ResultOf(h))
       IN /\ observed' = [i \in DOMAIN observed \cup {h} |->
                            IF i = h THEN resp ELSE observed[i]]
    /\ inflight' = Absent
    /\ UNCHANGED <<patches, next_patch_id, processed_samples, jobs, accepted,
                   transform_log, http>>

-----------------------------------------------------------------------------
(* POST /quick-process/ *)

\* the array quick_process has at its size check
QuickProcessData(file, scheme) ==
    LET data == librosa_load(file) IN
    IF ndim(data) = 2 /\ scheme \notin MULTI_CHANNEL_SCHEMES
      THEN np_mean_axis0(data) ELSE data

\* num_samples of the response
NumSamples(processed) ==
    IF ndim(processed) > 1 THEN processed.shape[Len(processed.shape)]
                           ELSE len(processed)

QuickExchange(req, status, calls, body) ==
    [endpoint |-> "quick-process", request |-> req, status |-> status,
     calls |-> calls, body |-> body]

\* the HTTP exchange of one quick_process request
QuickProcessExchange(req, env) ==
    LET errs == AudioProcessRequestSerializerErrors(req) IN
    IF errs # {} THEN QuickExchange(req, 400, <<>>, [errors |-> errs])
    ELSE
    LET v == validated_data(req) IN
    IF ~v.audio.decodable
      THEN QuickExchange(req, 500, <<>>, [error |-> "cannot decode audio"])
    ELSE
    LET data == QuickProcessData(v.audio, v.scheme)
        call == Call("stream", data, v.scheme, v.shots, Absent)
    IN
    IF len(data) > QUICK_MAX_SAMPLES
      THEN QuickExchange(req, 400, <<>>,
             [error |-> "Audio too long for quick processing. Use /process/ endpoint."])
    ELSE IF env.load # "ok"
      THEN QuickExchange(req, 500, <<>>, [error |-> "Scheme is not available"])
    ELSE IF env.out.raises
      THEN QuickExchange(req, 500, <<call>>, [error |-> "transform failed"])
    ELSE LET processed == TransformResult(data, env.out)
         IN QuickExchange(req, 200, <<call>>,
              [audio |-> processed,
               sample_rate |-> v.audio.sample_rate,
               samples |-> NumSamples(processed)])

quick_process(req, env) ==
    /\ http' = QuickProcessExchange(req, env)
    /\ UNCHANGED <<patches, next_patch_id, processed_samples, jobs, accepted,
                   inflight, observed, transform_log>>

-----------------------------------------------------------------------------
(* Initial state, inputs and specifications *)

Init ==
    /\ patches = << >>
    /\ next_patch_id = 1
    /\ processed_samples = {}
    /\ jobs = << >>
    /\ accepted = << >>
    /\ inflight = Absent
    /\ observed = << >>
    /\ transform_log = << >>
    /\ http = NoExchange

\* uploaded files: decodable ones with full-scale samples, and one no codec reads
AudioFile(channels, frames) ==
    [decodable |-> TRUE, channels |-> channels, frames |-> frames,
     sample_rate |-> 44100, lo |-> CLIP_MIN, hi |-> CLIP_MAX]

CorruptFile ==
    [decodable |-> FALSE, channels |-> 0, frames |-> 0,
     sample_rate |-> 0, lo |-> 0, hi |-> 0]

\* behaviours of the quantumaudio library on one invocation
OutRaises == [raises |-> TRUE, lo |-> 0, hi |-> 0]
Out(lo, hi) == [raises |-> FALSE, lo |-> lo, hi |-> hi]
Outs == {OutRaises, Out(-5, 5), Out(-15, 12)}
Envs == [load : {"ok", "none", "raises"}, out : Outs]

Opt(S) == {Absent} \cup {Some(x) : x \in S}

\* --- the patch store on its own ---
PatchNames == {"p1", "p2"}
PatchShots == {MIN_SHOTS - 1, MIN_SHOTS, MAX_SHOTS, MAX_SHOTS + 1}
PatchPayloads == [name : Opt(PatchNames), shots : Opt(PatchShots)]

NextPatch ==
    \/ \E p \in PatchPayloads : next_patch_id <= MaxPatchId /\ PatchCreate(p)
    \/ \E pk \in 1..MaxPatchId, p \in PatchPayloads, partial \in BOOLEAN :
          PatchUpdate(pk, p, partial)
    \/ \E pk \in 1..MaxPatchId : PatchDestroy(pk)

SpecPatch == Init /\ [][NextPatch]_vars

\* --- the synchronous endpoint on its own ---
QuickFiles ==
    {AudioFile(c, n) : c \in {1, 2},
                       n \in {QUICK_MAX_SAMPLES, QUICK_MAX_SAMPLES + 1}}
    \cup {CorruptFile}
QuickRequests ==
    [audio : Opt(QuickFiles), scheme : Opt(SCHEME_CHOICES \cup {"bogus"}),
     shots : {Absent, Some(MIN_SHOTS - 1)}, buffer_size : {Absent},
     use_patch : {Absent}]

NextQuick == \E req \in QuickRequests, env \in Envs : quick_process(req, env)

SpecQuick == Init /\ [][NextQuick]_vars

\* --- request validation and buffer tuning of /process/ ---
ClampFiles == {AudioFile(1, 300), CorruptFile}
ClampBufferSizes ==
    {MIN_BUFFER_SIZE - 1, MIN_BUFFER_SIZE, MIN_BUFFER_SIZE + 1,
     MAX_BUFFER_SIZE, MAX_BUFFER_SIZE + 1}
ClampRequests ==
    [audio : Opt(ClampFiles), scheme : Opt(SCHEME_CHOICES),
     shots : {Absent}, buffer_size : Opt(ClampBufferSizes),
     use_patch : {Absent}]

NextClamp ==
    \/ \E req \in ClampRequests : Len(jobs) < MaxClampJobs /\ process_audio(req)
    \/ \E j \in 1..MaxClampJobs, env \in Envs : process_quantum_audio(j, env)

SpecClamp == Init /\ [][NextClamp]_vars

\* --- what the two tasks hand to the transform ---
ArgFile == AudioFile(2, 300)
ArgRequests ==
    [audio : {Some(ArgFile)}, scheme : {Some("qpam")},
     shots : {Absent}, buffer_size : {Absent, Some(512)},
     use_patch : {Absent, Some(1)}]
ArgFileTasks ==
    {[file |-> AudioFile(1, 300), scheme |-> "qpam", buffer_size |-> DEFAULT_BUFFER_SIZE],
     [file |-> AudioFile(1, 300), scheme |-> "qpam", buffer_size |-> 512],
     [file |-> ArgFile, scheme |-> "mqsm", buffer_size |-> 1]}
ArgEnvs == [load : {"ok", "none"}, out : {OutRaises, Out(-15, 12)}]
ArgPatchPayload == [name |-> Some("p1"), shots |-> Some(DEFAULT_SHOTS)]

NextArgs ==
    \/ next_patch_id <= MaxPatchId /\ PatchCreate(ArgPatchPayload)
    \/ \E req \in ArgRequests :
          /\ Len(jobs) < MaxArgJobs
          /\ Given(req.use_patch) => req.use_patch[1] \in DOMAIN patches
          /\ process_audio(req)
    \/ \E t \in ArgFileTasks :
          /\ Len(jobs) < MaxArgJobs
          /\ enqueue_process_audio_file(t.file, t.scheme, DEFAULT_SHOTS, t.buffer_size)
    \/ \E j \in 1..MaxArgJobs, env \in ArgEnvs : process_quantum_audio(j, env)
    \/ \E j \in 1..MaxArgJobs, env \in ArgEnvs : process_audio_file(j, env)

SpecArgs == Init /\ [][NextArgs]_vars

\* --- the life of a job and the status endpoint ---
LifeRequest ==
    [audio |-> Some(AudioFile(1, 300)), scheme |-> Absent, shots |-> Absent,
     buffer_size |-> Absent, use_patch |-> Absent]

LifeEnvs == [load : {"ok", "raises"}, out : {OutRaises, Out(-15, 12)}]

Enqueue == Len(jobs) < MaxLifeJobs /\ process_audio(LifeRequest)
Start == \E j \in 1..MaxLifeJobs : worker_started(j)
Run == \E j \in 1..MaxLifeJobs, env \in LifeEnvs : process_quantum_audio(j, env)
Lost == \E j \in 1..MaxLifeJobs : worker_lost(j)
PollBegin == \E h \in 1..MaxLifeJobs : task_status_begin(h)
PollEnd == task_status_end

NextLife == Enqueue \/ Start \/ Run \/ Lost \/ PollBegin \/ PollEnd

SpecLife == Init /\ [][NextLife]_vars

\* the executor keeps running the tasks it holds, the web server answers
\* the requests it has begun
FairSpecLife == SpecLife /\ WF_vars(Run) /\ WF_vars(PollEnd)

-----------------------------------------------------------------------------
(* Properties *)

Terminal(state) == state \in {"SUCCESS", "FAILURE"}

InRange(a) == a.lo >= -10 /\ a.hi <= 10

Succeeded(j) ==
    jobs[j].state = "SUCCESS" /\ jobs[j].result[1].status = "success"

ErrorPayloadJob(h) ==
    /\ h \in DOMAIN jobs
    /\ jobs[h].state = "SUCCESS"
    /\ jobs[h].result[1].status = "error"

\* C1: whenever task_status answers for a task the executor records as
\* succeeded but whose payload has status "error", the response has status
\* FAILURE, carries the payload's error message and carries no result.
C1_ErrorPayloadReportedAsFailure ==
    [][(Given(inflight) /\ inflight' = Absent
          /\ ErrorPayloadJob(inflight[1].task_id))
       => LET h == inflight[1].task_id IN
          observed'[h] = [task_id |-> h, status |-> "FAILURE", result |-> Absent,
                          error |-> Some(jobs[h].result[1].error)]]_vars

C1_Witness ==
    \E h \in DOMAIN observed :
        /\ ErrorPayloadJob(h)
        /\ observed[h].status = "FAILURE"
        /\ observed[h].error = Some("transform failed")
        /\ ~Given(observed[h].result)

\* C2: of two accepted /process/ requests with the same audio and the same
\* patch id, at most one reaches the transform, and when both have succeeded
\* they carry the same audio.
C2_SecondRequestServedFromCache ==
    \A i, j \in DOMAIN jobs :
        (/\ i < j
         /\ Given(accepted[i]) /\ Given(accepted[j])
         /\ accepted[i] = accepted[j]
         /\ Given(accepted[i][1].use_patch)
         /\ accepted[i][1].use_patch[1] \in DOMAIN patches)
        => /\ ~(Given(transform_log[i]) /\ Given(transform_log[j]))
           /\ (Succeeded(i) /\ Succeeded(j))
                => jobs[i].result[1].audio = jobs[j].result[1].audio

\* C3: every audio array handed back to a caller (by process_quantum_audio,
\* by process_audio_file, by quick_process) has all samples in [-1.0, 1.0].
C3_ReturnedAudioInRange ==
    /\ \A j \in DOMAIN jobs : Succeeded(j) => InRange(jobs[j].result[1].audio)
    /\ (http.endpoint = "quick-process" /\ http.status = 200)
         => InRange(http.body.audio)

\* C4: a quick-process request whose audio has more than 2048 samples is
\* answered 400 without a transform call, whatever the scheme and the channel
\* layout; one with at most 2048 samples is not turned away as too long.
TooLong(exchange) ==
    /\ exchange.status = 400
    /\ "error" \in DOMAIN exchange.body
    /\ exchange.body.error = "Audio too long for quick processing. Use /process/ endpoint."

C4_QuickSizeGate ==
    (/\ http.endpoint = "quick-process"
     /\ Given(http.request.audio)
     /\ http.request.audio[1].decodable)
    => /\ http.request.audio[1].frames > 2048
            => (http.status = 400 /\ http.calls = <<>>)
       /\ http.request.audio[1].frames <= 2048 => ~TooLong(http)

\* C5: for every accepted /process/ request, a scheme of sqpam, qsm or mqsm
\* with a requested buffer_size above 128 gives the task a buffer size of
\* exactly 128, a scheme of qpam or msqpam gives it the requested value (256
\* when none is requested), and a successful result echoes that value in its
\* metadata.
C5_BufferClamping ==
    \A j \in DOMAIN jobs :
        Given(accepted[j]) =>
        LET req == accepted[j][1]
            scheme == IF Given(req.scheme) THEN req.scheme[1] ELSE "qpam"
            asked == IF Given(req.buffer_size) THEN req.buffer_size[1] ELSE 256
            effective == jobs[j].args.buffer_size
        IN /\ (scheme \in {"sqpam", "qsm", "mqsm"} /\ asked > 128) => effective = 128
           /\ scheme \in {"qpam", "msqpam"} => effective = asked
           /\ Succeeded(j) => jobs[j].result[1].metadata.buffer_size = effective

C5_Witness ==
    \E j \in DOMAIN jobs :
        /\ accepted[j][1].scheme = Some("qsm")
        /\ accepted[j][1].buffer_size = Some(1024)
        /\ Succeeded(j)
        /\ jobs[j].result[1].metadata.buffer_size = 128

\* C6: a task_status response with status PENDING or STARTED carries neither
\* result nor error, one with status SUCCESS or FAILURE carries exactly one of
\* them, a result comes only with SUCCESS and an error only with FAILURE.
C6_StatusResponseShape ==
    \A h \in DOMAIN observed :
        LET r == observed[h] IN
        /\ r.status \in {"PENDING", "STARTED"} => (~Given(r.result) /\ ~Given(r.error))
        /\ r.status \in {"SUCCESS", "FAILURE"} => (Given(r.result) # Given(r.error))
        /\ Given(r.result) => r.status = "SUCCESS"
        /\ Given(r.error) => r.status = "FAILURE"

\* C7: once task_status has reported SUCCESS or FAILURE for a handle, no step
\* changes what it reports for that handle, and no step changes the stored
\* outcome of a terminal task.
C7_TerminalOutcomeImmutable ==
    [][/\ \A h \in DOMAIN observed :
            Terminal(observed[h].status) => observed'[h] = observed[h]
       /\ \A h \in DOMAIN jobs :
            Terminal(jobs[h].state) => jobs'[h] = jobs[h]]_vars

C7_Witness ==
    \E h \in DOMAIN observed :
        /\ observed[h].status = "SUCCESS"
        /\ Given(observed[h].result)
        /\ Given(inflight) /\ inflight[1].task_id = h

\* C8: stored patches always have pairwise distinct names and shots within
\* [1000, 8000]; a create or update whose name is taken by another patch or
\* whose shots lie outside the range is answered 400 and leaves the store as
\* it was.
PatchStoreInv ==
    /\ \A i, j \in DOMAIN patches : i # j => patches[i].name # patches[j].name
    /\ \A i \in DOMAIN patches : patches[i].shots >= 1000 /\ patches[i].shots <= 8000

Violates(payload, self) ==
    \/ /\ Given(payload.name)
       /\ \E i \in DOMAIN patches \ self : patches[i].name = payload.name[1]
    \/ /\ Given(payload.shots)
       /\ (payload.shots[1] < 1000 \/ payload.shots[1] > 8000)

C8_PatchStoreInvariant ==
    /\ []PatchStoreInv
    /\ [][/\ (http'.endpoint = "patch-create" /\ Violates(http'.payload, {}))
               => (http'.status = 400 /\ patches' = patches)
          /\ (/\ http'.endpoint = "patch-update"
              /\ http'.pk \in DOMAIN patches
              /\ Violates(http'.payload, {http'.pk}))
               => (http'.status = 400 /\ patches' = patches)]_vars

C8_Witness ==
    /\ Cardinality(DOMAIN patches) = 2
    /\ http.endpoint = "patch-update"
    /\ http.status = 400
    /\ <<"name", "unique">> \in http.errors
    /\ <<"shots", "max_value">> \in http.errors

\* C9: every enqueued job eventually reaches SUCCESS or FAILURE; no step
\* removes a job, revokes it, takes it back to PENDING or alters it once
\* terminal; a job whose transform call raised is terminal with an error
\* recorded in its payload.
C9_JobCompletion ==
    /\ \A h \in 1..MaxLifeJobs : (h \in DOMAIN jobs) ~> Terminal(StateOf(h))
    /\ [][\A h \in DOMAIN jobs :
            /\ h \in DOMAIN jobs'
            /\ jobs'[h].state \in {"PENDING", "STARTED", "SUCCESS", "FAILURE"}
            /\ jobs'[h].state = "PENDING" => jobs[h].state = "PENDING"
            /\ Terminal(jobs[h].state) => jobs'[h] = jobs[h]]_vars
    /\ [](\A h \in DOMAIN jobs :
            (Given(transform_log[h]) /\ transform_log[h][1].outcome.raises)
            => /\ Terminal(jobs[h].state)
               /\ jobs[h].result[1].status = "error"
               /\ jobs[h].result[1].error = "transform failed")

C9_Witness ==
    \E h \in DOMAIN jobs :
        /\ Given(transform_log[h]) /\ transform_log[h][1].outcome.raises
        /\ jobs[h].state = "SUCCESS"
        /\ jobs[h].result[1].status = "error"

\* C10: two process_quantum_audio jobs whose arguments differ at most in
\* buffer_size call the transform with the same arguments, none of them
\* buffer_size, and for the same transform output return results that differ
\* at most in metadata.buffer_size; process_audio_file passes its buffer_size
\* to the transform whenever its input is longer than buffer_size.
SameButBufferSize(a, b) ==
    [a EXCEPT !.buffer_size = 0] = [b EXCEPT !.buffer_size = 0]

IsUpload(j) == jobs[j].task = "process_quantum_audio"

=============================================================================
